---- MODULE Spec2Model ----
(***************************************************************************)
(* DetectionOutputLayer (src/caffe/layers/detection_output_layer.cpp):     *)
(* LayerSetUp, Reshape and Forward_cpu as a state machine.                 *)
(*                                                                         *)
(* Numbers.  Normalized coordinates are integers on a grid of Unit steps   *)
(* per image side (1.0 = Unit); scores and the nms threshold are integers  *)
(* in tenths (0.9 = 9).  A box is <<xmin, ymin, xmax, ymax>>.              *)
(***************************************************************************)
EXTENDS Integers, Sequences, FiniteSets, TLC

\* ------------------------------------------------------------------ bounds
MaxClasses == 2
MaxNum == 2
MaxPasses == 2

\* ------------------------------------------------------------- arithmetic
Unit == 20
ThrDen == 10

Min2(a, b) == IF a < b THEN a ELSE b
Max2(a, b) == IF a > b THEN a ELSE b

\* static_cast<int>(n / d): the quotient truncated toward zero (d > 0).
TruncDiv(n, d) == IF n >= 0 THEN n \div d ELSE -((-n) \div d)

RECURSIVE Pow2(_)
Pow2(k) == IF k <= 0 THEN 1 ELSE 2 * Pow2(k - 1)

RECURSIVE SumSeq(_)
SumSeq(s) == IF s = <<>> THEN 0 ELSE Head(s) + SumSeq(Tail(s))

\* ------------------------------------------------- the layer's parameters
\* The files a prototxt can name, as the set-up code finds them on disk.
LabelNames == <<"background", "aeroplane", "bicycle", "bird">>

\* ReadProtoFromTextFile + MapLabelToName: the label map of a readable file.
LabelMapOf(file) ==
  IF file = "labelmap.prototxt"
    THEN [ok |-> TRUE, map |-> [l \in 0..(Len(LabelNames) - 1) |-> LabelNames[l + 1]]]
    ELSE [ok |-> FALSE, map |-> <<>>]

\* The lines "name height width" of the name/size files.
NameSizeLines ==
  << <<"img0", 200, 100>>, <<"img1", -33, 70>>, <<"img2", 33, 47>>,
     <<"img3", 64, 48>> >>

\* std::ifstream: whether the file opens, and the triples operator>> reads.
NameSizeOf(file) ==
  CASE file = "one.txt"   -> [good |-> TRUE, lines |-> SubSeq(NameSizeLines, 1, 1)]
    [] file = "three.txt" -> [good |-> TRUE, lines |-> SubSeq(NameSizeLines, 1, 3)]
    [] OTHER              -> [good |-> FALSE, lines |-> <<>>]

\* boost::filesystem::is_directory / create_directories on the output path.
IsDirectory(dir) == dir = "out"
CreateDirectories(dir) == dir = "new_out"

\* ------------------------------------------------------------- bbox_util
\* The label every location prediction is filed under when share_location.
SharedLabel == -1

\* GetPriorBBoxes: the prior blob is two concatenated blocks, num_priors boxes
\* of 4 coordinates, then num_priors variance vectors of 4.
GetPriorBBoxes(prior, num_priors) ==
  [p \in 1..num_priors |-> SubSeq(prior.data, 4 * (p - 1) + 1, 4 * p)]

GetPriorVariances(prior, num_priors) ==
  [p \in 1..num_priors |->
     SubSeq(prior.data, 4 * num_priors + 4 * (p - 1) + 1, 4 * num_priors + 4 * p)]

\* GetLocPredictions: per image, label -> one encoded box per prior; the flat
\* row of an image holds, prior by prior, loc_classes boxes of 4 values.
GetLocPredictions(loc, num, num_priors, loc_classes, share_location) ==
  [i \in 1..num |->
     [label \in (IF share_location THEN {SharedLabel} ELSE 0..(loc_classes - 1)) |->
        [p \in 1..num_priors |->
           LET c == IF share_location THEN 0 ELSE label
               at == ((p - 1) * loc_classes + c) * 4
           IN  SubSeq(loc[i], at + 1, at + 4)]]]

\* GetConfidenceScores: per image, class -> one score per prior; the flat row
\* of an image holds, prior by prior, num_classes scores.
GetConfidenceScores(conf, num, num_priors, num_classes) ==
  [i \in 1..num |->
     [c \in 0..(num_classes - 1) |->
        [p \in 1..num_priors |-> conf[i][(p - 1) * num_classes + c + 1]]]]

\* DecodeBBox: center/size decoding scaled by the prior's variances.  The
\* encoded center offsets are in halves of the prior's side and the encoded
\* sizes in units of ln 2, so that exp(variance * size) is a power of two.
DecodeBBox(prior_bbox, prior_variance, bbox) ==
  LET prior_width == prior_bbox[3] - prior_bbox[1]
      prior_height == prior_bbox[4] - prior_bbox[2]
      prior_center_x2 == prior_bbox[1] + prior_bbox[3]
      prior_center_y2 == prior_bbox[2] + prior_bbox[4]
      center_x2 == prior_variance[1] * bbox[1] * prior_width + prior_center_x2
      center_y2 == prior_variance[2] * bbox[2] * prior_height + prior_center_y2
      width == Pow2(prior_variance[3] * bbox[3]) * prior_width
      height == Pow2(prior_variance[4] * bbox[4]) * prior_height
  IN  << (center_x2 - width) \div 2, (center_y2 - height) \div 2,
         (center_x2 + width) \div 2, (center_y2 + height) \div 2 >>

DecodeBBoxes(prior_bboxes, prior_variances, loc_preds) ==
  [p \in DOMAIN prior_bboxes |->
     DecodeBBox(prior_bboxes[p], prior_variances[p], loc_preds[p])]

BBoxSize(b) == IF b[3] < b[1] \/ b[4] < b[2] THEN 0 ELSE (b[3] - b[1]) * (b[4] - b[2])

IntersectSize(a, b) ==
  IF b[1] > a[3] \/ b[3] < a[1] \/ b[2] > a[4] \/ b[4] < a[2]
    THEN 0
    ELSE (Min2(a[3], b[3]) - Max2(a[1], b[1])) * (Min2(a[4], b[4]) - Max2(a[2], b[2]))

\* JaccardOverlap(a, b) > threshold, the threshold in ThrDen-ths.
OverlapExceeds(a, b, threshold) ==
  LET inter == IntersectSize(a, b)
      union == BBoxSize(a) + BBoxSize(b) - inter
  IN  inter > 0 /\ inter * ThrDen > threshold * union

\* The prior indices by descending score, equal scores by lower index first.
RECURSIVE SortByScore(_, _)
SortByScore(S, scores) ==
  IF S = {} THEN <<>>
  ELSE LET best == CHOOSE p \in S :
                     \A q \in S : scores[p] > scores[q] \/ (scores[p] = scores[q] /\ p <= q)
       IN  <<best>> \o SortByScore(S \ {best}, scores)

GetTopKScoreIndex(scores, top_k) ==
  LET sorted == SortByScore(DOMAIN scores, scores)
  IN  IF top_k > -1 /\ top_k < Len(sorted) THEN SubSeq(sorted, 1, top_k) ELSE sorted

RECURSIVE Suppress(_, _, _, _)
Suppress(candidates, kept, bboxes, threshold) ==
  IF candidates = <<>> THEN kept
  ELSE LET idx == Head(candidates)
           hit == \E k \in 1..Len(kept) : OverlapExceeds(bboxes[idx], bboxes[kept[k]], threshold)
       IN  Suppress(Tail(candidates), IF hit THEN kept ELSE Append(kept, idx),
                    bboxes, threshold)

\* ApplyNMS: greedy suppression over the (top_k) candidates in score order.
ApplyNMS(bboxes, scores, threshold, top_k) ==
  Suppress(GetTopKScoreIndex(scores, top_k), <<>>, bboxes, threshold)

ClipBBox(b) ==
  << Max2(Min2(b[1], Unit), 0), Max2(Min2(b[2], Unit), 0),
     Max2(Min2(b[3], Unit), 0), Max2(Min2(b[4], Unit), 0) >>

\* ScaleBBox: x by the width, y by the height (here still in Unit-ths).
ScaleBBox(b, height, width) ==
  << b[1] * width, b[2] * height, b[3] * width, b[4] * height >>

\* ------------------------------------------------------------------ state
VARIABLES
  layer_param,           \* DetectionOutputParameter of the prototxt
  pc,                    \* "new", "idle", "reshaped", "nms", "pack", "fatal"
  fatal,                 \* the message of the failed CHECK / LOG(FATAL)
  warnings,              \* the LOG(WARNING) messages of LayerSetUp
  num_classes_, share_location_, loc_classes_, background_label_id_,
  nms_threshold_, top_k_, output_directory_, output_format_, need_save_,
  label_to_name_, names_, sizes_, name_count_, num_priors_,
  bottom,                \* [loc, conf, prior]: the three input blobs
  all_decode_bboxes, all_indices, num_kept,     \* Forward_cpu, first loop
  i, it, count,          \* Forward_cpu loop positions and the row counter
  top_data,              \* top[0]: the rows of the (num_kept x 7) buffer
  row_writes,            \* per row of top[0], how often it was written
  oob_writes,            \* writes at or beyond the allocated row count
  files,                 \* file name -> the lines it holds
  decodes,               \* per image of this pass, the DecodeBBoxes calls
  save_checks,           \* persistence checks and opens made by forward passes
  images_done,           \* images the second loop finished since set-up
  passes,                \* forward passes started since set-up
  prev_pass              \* the inputs and the buffer of the last finished pass

setup_vars ==
  << num_classes_, share_location_, loc_classes_, background_label_id_,
     nms_threshold_, top_k_, output_directory_, output_format_, need_save_,
     label_to_name_, names_, sizes_ >>

pass_vars == << all_decode_bboxes, all_indices, num_kept, i, it, count, decodes >>

top_vars == << top_data, row_writes, oob_writes >>

vars ==
  << layer_param, pc, fatal, warnings, setup_vars, name_count_, num_priors_,
     bottom, pass_vars, top_vars, files, save_checks, images_done, passes,
     prev_pass >>

\* name_count_ before its only assignment (line 75): an indeterminate int.
Indeterminate == -1000
IndeterminateInts == {0, 3}
ReadInt(x) == IF x = Indeterminate THEN IndeterminateInts ELSE {x}

\* The file name of a class: output_name_prefix_ + name + ".txt".
\* A line of a file: the six fields written, and for the record the clipped box
\* it came from and the ordinal since set-up of the image it belongs to.
StaleLine ==
  [name |-> "stale", score |-> 0, box |-> <<0, 0, 0, 0>>,
   clip |-> <<0, 0, 0, 0>>, image |-> -1]
FileNames == {LabelNames[k] : k \in 1..Len(LabelNames)}

\* ------------------------------------------------------------- parameters
Param(nc, share, bg, thr, topk, dir, fmt, lmf, nsf) ==
  [has_num_classes |-> nc > 0, num_classes |-> nc, share_location |-> share,
   background_label_id |-> bg, nms_threshold |-> thr,
   has_top_k |-> topk > -1, top_k |-> topk,
   output_directory |-> dir, output_format |-> fmt,
   label_map_file |-> lmf, name_size_file |-> nsf]

\* Detection parameters over all shapes, nothing saved.
DetectionParams ==
  { Param(nc, share, bg, thr, topk, "", "", "", "") :
      nc \in 0..MaxClasses, share \in BOOLEAN, bg \in {-1, 0, 1},
      thr \in {-1, 5}, topk \in {-1, 2} }

\* Save parameters over all shapes, without top_k.
SaveParams ==
  { Param(nc, share, bg, thr, -1, dir, fmt, lmf, nsf) :
      nc \in 0..MaxClasses, share \in BOOLEAN, bg \in {-1, 0, 1}, thr \in {-1, 5},
      dir \in {"", "out", "new_out", "blocked/out"}, fmt \in {"VOC", "COCO"},
      lmf \in {"", "labelmap.prototxt", "broken.prototxt"},
      nsf \in {"", "one.txt", "three.txt", "missing.txt"} }

InitWith(params) ==
  /\ layer_param \in params
  /\ pc = "new"
  /\ fatal = ""
  /\ warnings = {}
  /\ num_classes_ = 0 /\ share_location_ = FALSE /\ loc_classes_ = 0
  /\ background_label_id_ = 0 /\ nms_threshold_ = 0 /\ top_k_ = -1
  /\ output_directory_ = "" /\ output_format_ = "" /\ need_save_ = FALSE
  /\ label_to_name_ = <<>> /\ names_ = <<>> /\ sizes_ = <<>>
  /\ name_count_ = Indeterminate
  /\ num_priors_ = 0
  /\ bottom = [loc |-> <<>>, conf |-> <<>>, prior |-> [height |-> 0, data |-> <<>>]]
  /\ all_decode_bboxes = <<>> /\ all_indices = <<>> /\ num_kept = 0
  /\ i = 0 /\ it = 0 /\ count = 0
  /\ top_data = <<>> /\ row_writes = <<>> /\ oob_writes = 0
  /\ files = [f \in FileNames |-> <<StaleLine>>]
  /\ decodes = <<>>
  /\ save_checks = 0
  /\ images_done = 0
  /\ passes = 0
  /\ prev_pass = [bottom |-> <<>>, top |-> <<>>]

Init == InitWith(DetectionParams)
InitSave == InitWith(SaveParams)

Fatal(msg) == pc' = "fatal" /\ fatal' = msg

\* ------------------------------------------------------------- LayerSetUp
\* A bug: an unreadable label map or name/size file only disables saving.
SetUpVOCLenient(p, save) ==
  LET lm == LabelMapOf(p.label_map_file)
      ns == NameSizeOf(p.name_size_file)
      no_lm == p.label_map_file = "" \/ ~lm.ok
      no_ns == p.name_size_file = "" \/ ~ns.good
  IN  [failed |-> "",
       need_save |-> save /\ ~no_lm /\ ~no_ns,
       label_to_name |-> IF no_lm THEN <<>> ELSE lm.map,
       names |-> IF no_ns THEN <<>> ELSE [k \in DOMAIN ns.lines |-> ns.lines[k][1]],
       sizes |-> IF no_ns THEN <<>>
                 ELSE [k \in DOMAIN ns.lines |-> <<ns.lines[k][2], ns.lines[k][3]>>],
       name_count |-> IF no_ns THEN Indeterminate ELSE 0,
       warnings |-> (IF no_lm THEN {"Provide label_map_file"} ELSE {})
                    \cup (IF no_ns THEN {"Provide name_size_file"} ELSE {})]

\* Lines 42-76: what the VOC branch leaves in need_save_, label_to_name_,
\* names_, sizes_, name_count_, or the CHECK that fails.
SetUpVOC(p, save) ==
  LET lm == LabelMapOf(p.label_map_file)
      ns == NameSizeOf(p.name_size_file)
      no_lm == p.label_map_file = ""
      no_ns == p.name_size_file = ""
  IN  [failed |-> IF ~no_lm /\ ~lm.ok THEN "Failed to read label map file"
                  ELSE IF ~no_ns /\ ~ns.good THEN "Failed to open name size file"
                  ELSE "",
       need_save |-> save /\ ~no_lm /\ ~no_ns,
       label_to_name |-> IF no_lm THEN <<>> ELSE lm.map,
       names |-> IF no_ns THEN <<>> ELSE [k \in DOMAIN ns.lines |-> ns.lines[k][1]],
       sizes |-> IF no_ns THEN <<>>
                 ELSE [k \in DOMAIN ns.lines |-> <<ns.lines[k][2], ns.lines[k][3]>>],
       name_count |-> IF no_ns THEN Indeterminate ELSE 0,
       warnings |-> (IF no_lm THEN {"Provide label_map_file"} ELSE {})
                    \cup (IF no_ns THEN {"Provide name_size_file"} ELSE {})]

\* Lines 78-91: the files of the mapped labels but the background are emptied.
CleanFiles(label_to_name, background) ==
  [f \in FileNames |->
     IF \E l \in DOMAIN label_to_name : l # background /\ label_to_name[l] = f
       THEN <<>> ELSE files[f]]

LayerSetUp ==
  /\ pc = "new"
  /\ LET p == layer_param
         voc == SetUpVOC(p, p.output_directory # "")
         is_voc == p.output_format = "VOC"
     IN
     IF ~p.has_num_classes THEN
       Fatal("Must specify num_classes")
       /\ UNCHANGED << setup_vars, name_count_, warnings, files >>
     ELSE IF p.nms_threshold < 0 THEN
       Fatal("nms_threshold must be non negative.")
       /\ UNCHANGED << setup_vars, name_count_, warnings, files >>
     ELSE IF /\ p.output_directory # ""
             /\ ~IsDirectory(p.output_directory)
             /\ ~CreateDirectories(p.output_directory) THEN
       Fatal("Failed to create directory")
       /\ UNCHANGED << setup_vars, name_count_, warnings, files >>
     ELSE IF is_voc /\ voc.failed # "" THEN
       Fatal(voc.failed)
       /\ UNCHANGED << setup_vars, name_count_, warnings, files >>
     ELSE
       /\ pc' = "idle"
       /\ fatal' = fatal
       /\ num_classes_' = p.num_classes
       /\ share_location_' = p.share_location
       /\ loc_classes_' = IF p.share_location THEN 1 ELSE p.num_classes
       /\ background_label_id_' = p.background_label_id
       /\ nms_threshold_' = p.nms_threshold
       /\ top_k_' = IF p.has_top_k THEN p.top_k ELSE -1
       /\ output_directory_' = p.output_directory
       /\ output_format_' = p.output_format
       /\ need_save_' = IF is_voc THEN voc.need_save ELSE p.output_directory # ""
       /\ label_to_name_' = IF is_voc THEN voc.label_to_name ELSE label_to_name_
       /\ names_' = IF is_voc THEN voc.names ELSE names_
       /\ sizes_' = IF is_voc THEN voc.sizes ELSE sizes_
       /\ name_count_' = IF is_voc THEN voc.name_count ELSE name_count_
       /\ warnings' = IF is_voc THEN voc.warnings ELSE warnings
       /\ files' = IF is_voc /\ voc.need_save
                     THEN CleanFiles(voc.label_to_name, p.background_label_id)
                     ELSE files
  /\ UNCHANGED << layer_param, num_priors_, bottom, pass_vars, top_vars,
                  save_checks, images_done, passes, prev_pass >>

\* ---------------------------------------------------------------- inputs
\* A blob row of an image: prior by prior, one value (or box) per class.
Interleave(per_class, num_priors, classes, width) ==
  [k \in 1..(num_priors * classes * width) |->
     LET p == (k - 1) \div (classes * width) + 1
         c == ((k - 1) \div width) % classes
         w == ((k - 1) % width) + 1
     IN  IF width = 1 THEN per_class[c][p] ELSE per_class[c][p][w]]

PriorBlob(boxes) ==
  [height |-> 4 * Len(boxes),
   data |-> Interleave([c \in {0} |-> boxes], Len(boxes), 1, 4)
            \o [k \in 1..(4 * Len(boxes)) |-> 1]]

\* Three priors with IoU(1,2) = 0.8, IoU(1,3) = 0.1, IoU(2,3) = 0.125.
ThreePriors == << <<0, 0, 20, 20>>, <<0, 0, 20, 16>>, <<0, 0, 20, 2>> >>
\* One prior at (0.1, 0.1, 0.5, 0.5).
OnePrior == << <<2, 2, 10, 10>> >>

Stay == <<0, 0, 0, 0>>
DetectionInput ==
  [prior |-> PriorBlob(ThreePriors),
   scores |-> << <<9, 8, 7>>, <<8, 8, 8>>, <<7, 8, 9>> >>,
   locs |-> << <<Stay, Stay, Stay>>, <<Stay, <<2, 0, 0, 0>>, <<0, 0, 0, 3>> >> >>]

SaveInput ==
  [prior |-> PriorBlob(OnePrior), scores |-> << <<9>> >>, locs |-> << <<Stay>> >>]

\* The k-th of the patterns, counted round.
Pattern(patterns, k) == patterns[(k % Len(patterns)) + 1]

\* The bottoms a net can hand over: num images, conf rows for shape[1]
\* classes, loc rows for shape[2] location classes, one prior blob.  An image
\* picks a scores pattern and a locs pattern for its class 0; class c takes the
\* c-th pattern after it.
Bottoms(input) ==
  LET P == input.prior.height \div 4
      Pick == (1..Len(input.scores)) \X (1..Len(input.locs))
  IN  UNION { UNION {
        { [loc |-> [img \in 1..num |->
                      Interleave([c \in 0..(shape[2] - 1) |->
                                    Pattern(input.locs, pick[img][2] + c)],
                                 P, shape[2], 4)],
           conf |-> [img \in 1..num |->
                       Interleave([c \in 0..(shape[1] - 1) |->
                                     Pattern(input.scores, pick[img][1] + c)],
                                  P, shape[1], 1)],
           prior |-> input.prior] :
            pick \in [1..num -> Pick] }
        : shape \in (1..MaxClasses) \X (1..MaxClasses) }
        : num \in 1..MaxNum }

DetectionBottoms == Bottoms(DetectionInput)
SaveBottoms == Bottoms(SaveInput)

Num == Len(bottom.loc)
AllLocPreds ==
  GetLocPredictions(bottom.loc, Num, num_priors_, loc_classes_, share_location_)
AllConfScores == GetConfidenceScores(bottom.conf, Num, num_priors_, num_classes_)
PriorBBoxes == GetPriorBBoxes(bottom.prior, num_priors_)
PriorVariances == GetPriorVariances(bottom.prior, num_priors_)

\* ---------------------------------------------------------------- Reshape
\* Called by the net before every Forward_cpu, on this pass's bottoms: fresh
\* ones, or (again) the ones still in the blobs.
NoRow ==
  [image |-> Indeterminate, label |-> Indeterminate, score |-> Indeterminate,
   box |-> <<Indeterminate, Indeterminate, Indeterminate, Indeterminate>>,
   anchor |-> Indeterminate]

Reshape(fresh, again) ==
  /\ pc = "idle"
  /\ passes < MaxPasses
  /\ \E b \in (IF passes = 0 THEN fresh ELSE again \cup {bottom}) :
       LET priors == b.prior.height \div 4
       IN  /\ bottom' = b
           /\ num_priors_' = priors
           /\ IF Len(b.loc) # Len(b.conf) THEN
                Fatal("CHECK_EQ(bottom[0]->num(), bottom[1]->num())")
                /\ UNCHANGED top_vars
              ELSE IF priors * loc_classes_ * 4 # Len(b.loc[1]) THEN
                Fatal("Number of priors must match number of location predictions.")
                /\ UNCHANGED top_vars
              ELSE IF priors * num_classes_ # Len(b.conf[1]) THEN
                Fatal("Number of priors must match number of confidence predictions.")
                /\ UNCHANGED top_vars
              ELSE
                /\ pc' = "reshaped"
                /\ fatal' = fatal
                /\ top_data' = <<NoRow>>
                /\ row_writes' = <<0>>
                /\ oob_writes' = oob_writes
  /\ UNCHANGED << layer_param, warnings, setup_vars, name_count_, pass_vars,
                  files, save_checks, images_done, passes, prev_pass >>

\* ------------------------------------------------------------ Forward_cpu
\* Lines 146, 172, 198: the label a class's boxes are filed under.
LocLabel(c) == IF share_location_ THEN SharedLabel ELSE c

\* Lines 145-150: the labels the decode loop does not skip.
DecodeLabels ==
  {LocLabel(c) : c \in 0..(loc_classes_ - 1)} \ {background_label_id_}

\* Lines 144-157: decode_bboxes of image img (1-based).
DecodeImage(img) ==
  [label \in DecodeLabels \cap DOMAIN AllLocPreds[img] |->
     DecodeBBoxes(PriorBBoxes, PriorVariances, AllLocPreds[img][label])]

\* A bug: the nms loop does not skip the background class.
NmsClassesAll == 0..(num_classes_ - 1)

\* Lines 163-167: the classes the nms loop does not skip.
NmsClasses == {c \in 0..(num_classes_ - 1) : c # background_label_id_}

\* A bug: every class is suppressed on the boxes of the first decoded label.
NmsBoxesFirst(decode_bboxes, c) ==
  decode_bboxes[CHOOSE l \in DOMAIN decode_bboxes : \A m \in DOMAIN decode_bboxes : l <= m]

\* Lines 172-178: the boxes handed to ApplyNMS for class c.
NmsBoxes(decode_bboxes, c) == decode_bboxes[LocLabel(c)]

\* Lines 178-179: indices of image img.
NmsImageIndices(decode_bboxes, img) ==
  [c \in NmsClasses |->
     ApplyNMS(NmsBoxes(decode_bboxes, c), AllConfScores[img][c],
              nms_threshold_, top_k_)]

\* A bug: the kept-index map is walked from its last key to its first.
RECURSIVE MapOrderDescending(_)
MapOrderDescending(keys) ==
  IF keys = {} THEN <<>>
  ELSE LET last == CHOOSE k \in keys : \A m \in keys : k >= m
       IN  <<last>> \o MapOrderDescending(keys \ {last})

\* std::map<int, ...>: the keys in the order begin()..end() visits them.
RECURSIVE MapOrder(_)
MapOrder(keys) ==
  IF keys = {} THEN <<>>
  ELSE LET first == CHOOSE k \in keys : \A m \in keys : k <= m
       IN  <<first>> \o MapOrder(keys \ {first})

\* A bug: num_kept counts the classes, not their kept indices.
KeptOfClasses(indices) == Cardinality(DOMAIN indices)

\* Line 180, over the classes of one image: what is added to num_kept.
KeptOf(indices) ==
  SumSeq([k \in 1..Cardinality(DOMAIN indices) |->
            Len(indices[MapOrder(DOMAIN indices)[k]])])

\* Lines 118-141: the blobs are read, the first loop's locals are empty.
ForwardBegin ==
  /\ pc = "reshaped"
  /\ pc' = "nms"
  /\ passes' = passes + 1
  /\ num_kept' = 0
  /\ all_indices' = <<>>
  /\ all_decode_bboxes' = <<>>
  /\ decodes' = <<>>
  /\ i' = 0 /\ it' = 0 /\ count' = 0
  /\ UNCHANGED << layer_param, fatal, warnings, setup_vars, name_count_,
                  num_priors_, bottom, top_vars, files, save_checks,
                  images_done, prev_pass >>

\* Lines 142-183: one image of the first loop, decode and nms of every class.
NmsImage ==
  /\ pc = "nms"
  /\ i < Num
  /\ LET img == i + 1
         decode_bboxes == DecodeImage(img)
     IN
     IF DecodeLabels \ DOMAIN AllLocPreds[img] # {} THEN
       Fatal("Could not find location predictions for label")
       /\ UNCHANGED << all_decode_bboxes, all_indices, num_kept, i, decodes >>
     ELSE IF NmsClasses \ DOMAIN AllConfScores[img] # {} THEN
       Fatal("Could not find confidence predictions for label")
       /\ all_decode_bboxes' = Append(all_decode_bboxes, decode_bboxes)
       /\ decodes' = Append(decodes, Cardinality(DecodeLabels))
       /\ UNCHANGED << all_indices, num_kept, i >>
     ELSE IF \E c \in NmsClasses : LocLabel(c) \notin DOMAIN decode_bboxes THEN
       Fatal("Could not find location predictions for label")
       /\ all_decode_bboxes' = Append(all_decode_bboxes, decode_bboxes)
       /\ decodes' = Append(decodes, Cardinality(DecodeLabels))
       /\ UNCHANGED << all_indices, num_kept, i >>
     ELSE
       LET indices == NmsImageIndices(decode_bboxes, img)
       IN  /\ all_decode_bboxes' = Append(all_decode_bboxes, decode_bboxes)
           /\ decodes' = Append(decodes, Cardinality(DecodeLabels))
           /\ all_indices' = Append(all_indices, indices)
           /\ num_kept' = num_kept + KeptOf(indices)
           /\ i' = i + 1
           /\ pc' = pc /\ fatal' = fatal
  /\ UNCHANGED << layer_param, warnings, setup_vars, name_count_, num_priors_,
                  bottom, it, count, top_vars, files, save_checks, images_done,
                  passes, prev_pass >>

\* Lines 185-192: top[0] becomes (1, 1, num_kept, 7); the second loop starts.
ReshapeTop ==
  /\ pc = "nms"
  /\ i = Num
  /\ pc' = "pack"
  /\ top_data' = [r \in 1..num_kept |-> NoRow]
  /\ row_writes' = [r \in 1..num_kept |-> 0]
  /\ count' = 0
  /\ i' = 0
  /\ it' = 1
  /\ UNCHANGED << layer_param, fatal, warnings, setup_vars, name_count_,
                  num_priors_, bottom, all_decode_bboxes, all_indices, num_kept,
                  decodes, oob_writes, files, save_checks, images_done, passes,
                  prev_pass >>

\* A bug: the pair of sizes_ is taken as (width, height).
LineBoxSwapped(clip_bbox, size) ==
  LET scale_bbox == ScaleBBox(clip_bbox, size[2], size[1])
  IN  << TruncDiv(scale_bbox[1], Unit), TruncDiv(scale_bbox[2], Unit),
         TruncDiv(scale_bbox[3], Unit), TruncDiv(scale_bbox[4], Unit) >>

\* Lines 232-238: the four integers of a line, from the clipped box and the
\* (height, width) pair of sizes_.
LineBox(clip_bbox, size) ==
  LET scale_bbox == ScaleBBox(clip_bbox, size[1], size[2])
  IN  << TruncDiv(scale_bbox[1], Unit), TruncDiv(scale_bbox[2], Unit),
         TruncDiv(scale_bbox[3], Unit), TruncDiv(scale_bbox[4], Unit) >>

\* A bug: the image counter moves by two.
NextNameCountSkip(n) == n + 2

\* Line 249.
NextNameCount(n) == n + 1

\* Lines 195-247: one class of the image's kept-index map: its rows, and with
\* need_save_ its checks and its lines.
PackClass ==
  /\ pc = "pack"
  /\ i < Num
  /\ it <= Cardinality(DOMAIN all_indices[i + 1])
  /\ LET label == MapOrder(DOMAIN all_indices[i + 1])[it]
         loc_label == LocLabel(label)
         decode_bboxes == all_decode_bboxes[i + 1]
         indices == all_indices[i + 1][label]
         n == Len(indices)
         rows == Len(top_data)
     IN
     IF loc_label \notin DOMAIN decode_bboxes THEN
       Fatal("Could not find location predictions for")
       /\ UNCHANGED << it, count, top_vars, files, save_checks >>
     ELSE IF need_save_ /\ label \notin DOMAIN label_to_name_ THEN
       Fatal("Cannot find label in the label map.")
       /\ save_checks' = save_checks + 1
       /\ UNCHANGED << it, count, top_vars, files >>
     ELSE
       \E name_count \in (IF need_save_ THEN ReadInt(name_count_) ELSE {0}) :
         IF need_save_ /\ ~(name_count >= 0 /\ name_count < Len(names_)) THEN
           Fatal("CHECK_LT(name_count_, names_.size())")
           /\ save_checks' = save_checks + 1
           /\ UNCHANGED << it, count, top_vars, files >>
         ELSE
           LET bboxes == decode_bboxes[loc_label]
               Row(j) ==
                 [image |-> i, label |-> label,
                  score |-> AllConfScores[i + 1][label][indices[j]],
                  box |-> ClipBBox(bboxes[indices[j]]),
                  anchor |-> indices[j]]
               Line(j) ==
                 [name |-> names_[name_count + 1],
                  score |-> AllConfScores[i + 1][label][indices[j]],
                  box |-> LineBox(ClipBBox(bboxes[indices[j]]), sizes_[name_count + 1]),
                  clip |-> ClipBBox(bboxes[indices[j]]),
                  image |-> images_done]
           IN  /\ top_data' =
                    [r \in 1..rows |->
                       IF count < r /\ r <= count + n THEN Row(r - count) ELSE top_data[r]]
               /\ row_writes' =
                    [r \in 1..rows |->
                       IF count < r /\ r <= count + n THEN row_writes[r] + 1
                       ELSE row_writes[r]]
               /\ oob_writes' = oob_writes + Cardinality({j \in 1..n : count + j > rows})
               /\ count' = count + n
               /\ files' =
                    IF need_save_
                      THEN [files EXCEPT ![label_to_name_[label]] =
                              @ \o [j \in 1..n |-> Line(j)]]
                      ELSE files
               /\ save_checks' = IF need_save_ THEN save_checks + 1 ELSE save_checks
               /\ it' = it + 1
               /\ pc' = pc /\ fatal' = fatal
  /\ UNCHANGED << layer_param, warnings, setup_vars, name_count_, num_priors_,
                  bottom, all_decode_bboxes, all_indices, num_kept, i, decodes,
                  images_done, passes, prev_pass >>

\* Lines 248-251: the image is done; after the last one the pass returns.
EndImage ==
  /\ pc = "pack"
  /\ i < Num
  /\ it > Cardinality(DOMAIN all_indices[i + 1])
  /\ \E name_count \in (IF need_save_ THEN ReadInt(name_count_) ELSE {0}) :
       name_count_' = IF need_save_ THEN NextNameCount(name_count) ELSE name_count_
  /\ images_done' = images_done + 1
  /\ i' = i + 1
  /\ it' = 1
  /\ pc' = IF i + 1 = Num THEN "idle" ELSE "pack"
  /\ prev_pass' = IF i + 1 = Num THEN [bottom |-> bottom, top |-> top_data]
                                   ELSE prev_pass
  /\ UNCHANGED << layer_param, fatal, warnings, setup_vars, num_priors_, bottom,
                  all_decode_bboxes, all_indices, num_kept, count, decodes,
                  top_vars, files, save_checks, passes >>

Next ==
  \/ LayerSetUp
  \/ Reshape(DetectionBottoms, {})
  \/ ForwardBegin
  \/ NmsImage
  \/ ReshapeTop
  \/ PackClass
  \/ EndImage

NextSave ==
  \/ LayerSetUp
  \/ Reshape(SaveBottoms, SaveBottoms)
  \/ ForwardBegin
  \/ NmsImage
  \/ ReshapeTop
  \/ PackClass
  \/ EndImage

Spec == Init /\ [][Next]_vars
SpecSave == InitSave /\ [][NextSave]_vars

\* ----------------------------------------------------------------- claims
\* The first loop's results belong to the inputs in the blobs.
InPass == pc \in {"nms", "pack"}
Packing == pc = "pack"
Completed == pc = "idle" /\ passes >= 1

\* One element per kept index: <<image, class, position in the kept list>>.
KeptSlots ==
  UNION { UNION { { <<img, c, j>> : j \in 1..Len(all_indices[img][c]) }
                  : c \in DOMAIN all_indices[img] }
          : img \in 1..Len(all_indices) }

\* C1: the buffer has as many rows as suppression kept indices over all images
\* and non-background classes; the packing loop writes rows 0..count-1 once
\* each, in order, and never a row at or beyond the allocated count; when the
\* pass completes the row counter equals the allocated count.
C1_RowsAreKeptIndices ==
  /\ (Packing \/ Completed) =>
       /\ Len(top_data) = Cardinality(KeptSlots)
       /\ Len(top_data) = num_kept
       /\ count <= Len(top_data)
       /\ oob_writes = 0
       /\ \A r \in 1..Len(top_data) :
            /\ row_writes[r] = (IF r <= count THEN 1 ELSE 0)
            /\ (r <= count) = (top_data[r] # NoRow)
  /\ Completed => count = Len(top_data)

C1_Witness ==
  /\ Completed
  /\ Num = 2
  /\ Len(top_data) >= 5
  /\ count = Len(top_data)
  /\ \E img \in 1..2 : \E c \in DOMAIN all_indices[img] :
       Len(all_indices[img][c]) < num_priors_

\* C2: no written row carries the background label, every row of a completed
\* pass is written, and the file of the background class never gets a line.
C2_NoBackground ==
  /\ (Packing \/ Completed) =>
       \A r \in 1..Len(top_data) :
         top_data[r] # NoRow => top_data[r].label # background_label_id_
  /\ Completed => \A r \in 1..Len(top_data) : top_data[r] # NoRow
  /\ background_label_id_ \in DOMAIN label_to_name_ =>
       files[label_to_name_[background_label_id_]] = <<StaleLine>>

C2_Witness ==
  /\ Completed
  /\ need_save_
  /\ background_label_id_ = 0
  /\ num_classes_ = 2
  /\ Len(top_data) >= 1
  /\ \E k \in 1..Len(files["aeroplane"]) : files["aeroplane"][k].image >= 0

\* The decoded boxes of class c of image img, from the blobs.
DecodedFor(img, c) ==
  DecodeBBoxes(PriorBBoxes, PriorVariances,
               AllLocPreds[img][IF share_location_ THEN SharedLabel ELSE c])

\* C3: in the kept-index lists of the image the first loop has just done (so
\* of every image, each at its turn) no two boxes overlap (IoU on the decoded,
\* unclipped boxes) by more than the threshold; suppression run again on just
\* the kept boxes and their scores keeps every one of them; and scores
\* (0.9, 0.8, 0.7) on boxes with IoU(1,2) = 0.8, IoU(1,3) = 0.1 at threshold
\* 0.5 (no top_k) keep the first and the third.
C3_KeptDoNotOverlap ==
  (pc = "nms" /\ Len(all_indices) >= 1) =>
    LET img == Len(all_indices)
    IN  \A c \in DOMAIN all_indices[img] :
          LET kept == all_indices[img][c]
              bboxes == DecodedFor(img, c)
              scores == AllConfScores[img][c]
              kept_bboxes == [k \in 1..Len(kept) |-> bboxes[kept[k]]]
              kept_scores == [k \in 1..Len(kept) |-> scores[kept[k]]]
          IN  /\ \A a, b \in 1..Len(kept) :
                   a # b =>
                     ~OverlapExceeds(bboxes[kept[a]], bboxes[kept[b]], nms_threshold_)
              /\ ApplyNMS(kept_bboxes, kept_scores, nms_threshold_, top_k_)
                   = [k \in 1..Len(kept) |-> k]
              /\ (bboxes = ThreePriors /\ scores = <<9, 8, 7>> /\ nms_threshold_ = 5
                    /\ top_k_ = -1) => kept = <<1, 3>>

C3_Witness ==
  /\ pc = "nms"
  /\ \E img \in 1..Len(all_indices) : \E c \in DOMAIN all_indices[img] :
       /\ DecodedFor(img, c) = ThreePriors
       /\ AllConfScores[img][c] = <<9, 8, 7>>
       /\ top_k_ = -1
       /\ all_indices[img][c] = <<1, 3>>

\* What the prototxt configures for saving.
SaveConfigured ==
  /\ layer_param.output_directory # ""
  /\ layer_param.output_format = "VOC"
  /\ layer_param.label_map_file # ""
  /\ layer_param.name_size_file # ""

\* The messages of the CHECKs and LOG(FATAL)s of LayerSetUp.
SetUpFatals ==
  {"Must specify num_classes", "nms_threshold must be non negative.",
   "Failed to create directory", "Failed to read label map file",
   "Failed to open name size file"}

\* LayerSetUp returned.
SetUpDone == pc # "new" /\ fatal \notin SetUpFatals

\* C4: saving is on after set-up only with an output directory, the format
\* "VOC", a label map file and a name/size file; with anything else a forward
\* pass makes no persistence check and opens no file.
C4_SaveOnlyWhenConfigured ==
  /\ (SetUpDone /\ need_save_) => SaveConfigured
  /\ ~SaveConfigured => save_checks = 0

\* Saving as section 4.6 enables it: the code's flag, under the VOC format.
SaveEnabled == SetUpDone /\ need_save_ /\ output_format_ = "VOC"

\* The lines forward passes appended.
AppendedLines ==
  UNION { { files[f][k] : k \in 1..Len(files[f]) } : f \in FileNames } \ {StaleLine}

\* C5: with saving enabled the image counter is the number of images the
\* second loop finished since set-up (0 at set-up, one more per image), and
\* every line of the k-th image carries the name and the size of entry k.
C5_CounterFollowsImages ==
  SaveEnabled =>
    /\ name_count_ = images_done
    /\ \A line \in AppendedLines :
         /\ line.image >= 0 /\ line.image < Len(names_)
         /\ line.image <= images_done
         /\ line.name = names_[line.image + 1]
         /\ line.box = LineBox(line.clip, sizes_[line.image + 1])

C5_Witness ==
  /\ SaveEnabled
  /\ passes = 2
  /\ name_count_ = 3
  /\ \E line \in AppendedLines : line.image = 2 /\ line.name = "img2"
  /\ \E line \in AppendedLines : line.image = 0 /\ line.name = "img0"

\* C6: with saving enabled no image is processed while the counter is at or
\* beyond the number of name/size entries (the pass dies instead), so the
\* counter never passes that number; and no entry outside the list is read.
C6_CounterStaysInBounds ==
  SaveEnabled =>
    /\ name_count_ <= Len(names_)
    /\ \A line \in AppendedLines : line.image < Len(names_)

\* A label map or name/size file the prototxt asks for and lacks or names badly.
SaveFileProblem ==
  /\ layer_param.output_format = "VOC"
  /\ \/ layer_param.label_map_file = ""
     \/ ~LabelMapOf(layer_param.label_map_file).ok
     \/ layer_param.name_size_file = ""
     \/ ~NameSizeOf(layer_param.name_size_file).good

CoreProblem ==
  \/ ~layer_param.has_num_classes
  \/ layer_param.nms_threshold < 0
  \/ /\ layer_param.output_directory # ""
     /\ ~IsDirectory(layer_param.output_directory)
     /\ ~CreateDirectories(layer_param.output_directory)

\* C7 as stated: set-up aborts only for a missing num_classes, a negative
\* nms_threshold or an output directory that cannot be made; a label map or
\* name/size file that is missing or unreadable ends set-up with saving off
\* and a warning.
C7_SetUpAbortsOnlyForCore ==
  pc # "new" =>
    /\ fatal \in SetUpFatals => CoreProblem
    /\ (SaveFileProblem /\ ~CoreProblem) =>
         (SetUpDone /\ ~need_save_ /\ warnings # {})

\* C7, amended: a label map or name/size file that is not named ends set-up
\* with saving off and a warning; set-up aborts for a missing num_classes, a
\* negative nms_threshold, an output directory that cannot be made, and, under
\* the VOC format, for a named label map file that cannot be read and a named
\* name/size file that cannot be opened.
UnreadableSaveFile ==
  /\ layer_param.output_format = "VOC"
  /\ \/ layer_param.label_map_file # "" /\ ~LabelMapOf(layer_param.label_map_file).ok
     \/ layer_param.name_size_file # "" /\ ~NameSizeOf(layer_param.name_size_file).good

C7_SetUpAborts ==
  pc # "new" =>
    /\ fatal \in SetUpFatals <=> (CoreProblem \/ UnreadableSaveFile)
    /\ fatal \in {"Failed to read label map file", "Failed to open name size file"}
         => (~CoreProblem /\ UnreadableSaveFile)
    /\ (SaveFileProblem /\ ~CoreProblem /\ ~UnreadableSaveFile) =>
         (SetUpDone /\ ~need_save_ /\ warnings # {})

C7_Witness ==
  /\ pc = "fatal"
  /\ fatal = "Failed to read label map file"
  /\ layer_param.output_directory # ""
  /\ layer_param.name_size_file = "three.txt"

\* C8 as stated: the four integers of a line are the clipped box scaled by the
\* (height, width) entry of its image and truncated toward zero, and the
\* clipped box (0.1, 0.1, 0.5, 0.5) with the entry (200, 100) gives
\* (20, 10, 100, 50).
C8_LineIs20_10_100_50 ==
  SaveEnabled =>
    \A line \in AppendedLines :
      (line.clip = <<2, 2, 10, 10>> /\ sizes_[line.image + 1] = <<200, 100>>)
        => line.box = <<20, 10, 100, 50>>

\* C8, amended: xmin and xmax are scaled by the width and ymin and ymax by the
\* height of the (height, width) entry of the line's image, each truncated
\* toward zero; the clipped box (0.1, 0.1, 0.5, 0.5) with the entry
\* (200, 100) gives (10, 20, 50, 100).
C8_LineIsScaledBox ==
  SaveEnabled =>
    \A line \in AppendedLines :
      LET height == sizes_[line.image + 1][1]
          width == sizes_[line.image + 1][2]
          Px(v, side) == LET n == v * side
                         IN  IF n >= 0 THEN n \div Unit ELSE -((-n) \div Unit)
      IN  /\ line.box = << Px(line.clip[1], width), Px(line.clip[2], height),
                           Px(line.clip[3], width), Px(line.clip[4], height) >>
          /\ (line.clip = <<2, 2, 10, 10>> /\ height = 200 /\ width = 100)
               => line.box = <<10, 20, 50, 100>>

C8_Witness ==
  /\ SaveEnabled
  /\ \E line \in AppendedLines :
       /\ line.clip = <<2, 2, 10, 10>>
       /\ sizes_[line.image + 1] = <<200, 100>>
       /\ line.box = <<10, 20, 50, 100>>
  /\ \E line \in AppendedLines : line.box[2] < 0

\* The structural LOG(FATAL)s of Forward_cpu.
ForwardFatals ==
  {"Could not find location predictions for label",
   "Could not find confidence predictions for label",
   "Could not find location predictions for"}

\* C9: with share_location, whatever background_label_id is, every image of a
\* pass is decoded once, under the shared label, and a pass whose blobs
\* passed Reshape meets no structural fatal error.
C9_SharedDecodedOnce ==
  (share_location_ /\ (InPass \/ Completed \/ pc = "fatal")) =>
    /\ \A img \in 1..Len(decodes) :
         decodes[img] = 1 /\ DOMAIN all_decode_bboxes[img] = {SharedLabel}
    /\ fatal \notin ForwardFatals

\* The second loop has written the last class of the last image.
PackedAll ==
  /\ pc = "pack"
  /\ i + 1 = Num
  /\ it > Cardinality(DOMAIN all_indices[Num])

\* The order of two consecutive rows.
RowsInOrder(a, b) ==
  \/ a.image < b.image
  \/ a.image = b.image /\ a.label < b.label
  \/ a.image = b.image /\ a.label = b.label /\ a.score > b.score
  \/ a.image = b.image /\ a.label = b.label /\ a.score = b.score /\ a.anchor < b.anchor

\* C10: the written rows are ordered by image, then by ascending class, then
\* by descending score, equal scores by lower prior index; each row holds the
\* score and the clipped decoded box of its prior; and a pass over the same
\* blobs as the pass before it ends with the same buffer.
C10_RowOrder ==
  /\ (Packing \/ Completed) =>
       /\ \A r \in 1..(count - 1) : RowsInOrder(top_data[r], top_data[r + 1])
       /\ \A r \in 1..count :
            LET row == top_data[r]
            IN  /\ row.image \in 0..(Num - 1)
                /\ row.label \in 0..(num_classes_ - 1)
                /\ row.score = AllConfScores[row.image + 1][row.label][row.anchor]
                /\ row.box = ClipBBox(DecodedFor(row.image + 1, row.label)[row.anchor])
  /\ (PackedAll /\ passes >= 2 /\ prev_pass.bottom = bottom) =>
       top_data = prev_pass.top

C10_Witness ==
  /\ PackedAll
  /\ passes = 2
  /\ prev_pass.bottom = bottom
  /\ \E r \in 1..(count - 1) :
       /\ top_data[r].image = top_data[r + 1].image
       /\ top_data[r].label = top_data[r + 1].label
       /\ top_data[r].score = top_data[r + 1].score
  /\ \E r \in 1..(count - 1) :
       top_data[r].image = top_data[r + 1].image /\ top_data[r].label < top_data[r + 1].label
  /\ \E r \in 1..(count - 1) : top_data[r].image < top_data[r + 1].image

====
